---- MODULE Spec2Model ----
(***************************************************************************)
(* Quote handlers of the dashboard: the per-symbol fetch-with-retry        *)
(* routine (fetchStockPrice / fetchIndicator) and the fan-out handler that *)
(* joins the per-symbol promises and decides the HTTP response.            *)
(*                                                                         *)
(* Three handler files are modelled, selected by the variable `pipeline`:  *)
(*   "economic"  fetchIndicator + handler   (indicator file, with grouped) *)
(*   "stocks"    fetchStockPrice + handler  (Finnhub stocks, with retry)   *)
(*   "legacy"    fetchStockPrice + handler  (api/stocks.js, API Ninjas,    *)
(*               one request per symbol, no timeout, no retry)             *)
(*                                                                         *)
(* One behaviour is one request cycle.  A step is one turn of the event    *)
(* loop: the synchronous part of the handler, the arrival of an upstream   *)
(* response, the firing of the abort timer of a call, the firing of a      *)
(* backoff timer, or the continuation after Promise.all.                   *)
(***************************************************************************)
EXTENDS Integers, Sequences, FiniteSets, TLC

VARIABLES
    pipeline,   \* which handler file serves the request
    registry,   \* the ordered symbol table the handler fans out over
    method,     \* req.method
    apiKey,     \* process.env.API_KEY
    nodeEnv,    \* process.env.NODE_ENV
    maxRetries, \* the value of the parameter `retries` of the fetch calls
    timed,      \* whether the waits of the cycle are being measured
    hpc,        \* position of the handler: "start", "awaiting", "done"
    headers,    \* response headers set so far (set of <<name, value>>)
    response,   \* the response sent (NoResponse until one is sent)
    sent,       \* number of responses sent in this cycle
    caught,     \* the exception caught at the outermost boundary (NoError if none)
    fpc,        \* per symbol: position of its fetch
    attempt,    \* per symbol: the loop variable `attempt`
    calls,      \* per symbol: outbound requests issued
    delays,     \* per symbol: the backoff delays waited, in order (ms)
    got429,     \* per symbol: per finished attempt, did the upstream answer 429
    body,       \* per symbol: the JSON body of the latest answer (NoBody if none parsed)
    fres,       \* per symbol: what the fetch returned or threw
    entries,    \* per symbol: settled value of the symbol's promise (after .catch)
    elapsed     \* per symbol: time its fetch has spent in timeouts and delays (ms)

vars == <<pipeline, registry, method, apiKey, nodeEnv, maxRetries, timed, hpc,
          headers, response, sent, caught, fpc, attempt, calls, delays, got429,
          body, fres, entries, elapsed>>

fetchVars == <<fpc, attempt, calls, delays, got429, body, fres, entries>>

\* the request and the process configuration, fixed during a cycle
envVars == <<pipeline, registry, method, apiKey, nodeEnv, maxRetries, timed>>

(***************************************************************************)
(* Bounds of the model.                                                    *)
(***************************************************************************)
\* number of registry entries the modelled cycle fans out over
NumSymbols == 2

Idx == 1..NumSymbols

\* largest value of `retries` a direct call of the fetch is made with
MaxRetries == 3

(***************************************************************************)
(* Program constants.                                                      *)
(***************************************************************************)
\* default value of the parameter `retries`
DEFAULT_RETRIES == 2

\* AbortSignal.timeout(5000)
TIMEOUT_MS == 5000

\* response.status === 429
RATE_LIMIT == 429

\* "Timeout: 10 seconds maximum" of the API endpoint
MAX_DURATION_MS == 10000

Pipelines == {"economic", "stocks", "legacy"}

Null == "null"

Undefined == "undefined"

NoResponse == [status |-> 0]

Pending == [state |-> "pending"]

NoResult == [tag |-> "none"]

NoError == [kind |-> "none", message |-> "", attempt |-> 0]

(***************************************************************************)
(* Symbol registries.  Each is the source table in declaration order;      *)
(* Object.keys() enumerates these string keys in insertion order.          *)
(***************************************************************************)
INDICATORS ==
    << [symbol |-> "^GSPC", name |-> "S&P 500", type |-> "Index"],
       [symbol |-> "^DJI",  name |-> "Dow Jones Industrial Average", type |-> "Index"],
       [symbol |-> "^IXIC", name |-> "NASDAQ Composite", type |-> "Index"],
       [symbol |-> "^RUT",  name |-> "Russell 2000", type |-> "Index"],
       [symbol |-> "^VIX",  name |-> "CBOE Volatility Index", type |-> "Volatility"],
       [symbol |-> "^TNX",  name |-> "US 10-Year Treasury Yield", type |-> "Bonds"],
       [symbol |-> "GC=F",  name |-> "Gold Futures", type |-> "Commodities"],
       [symbol |-> "CL=F",  name |-> "Crude Oil WTI", type |-> "Commodities"] >>

COMPANIES ==
    << [symbol |-> "AAPL",  name |-> "Apple Inc.", type |-> "Technology"],
       [symbol |-> "MSFT",  name |-> "Microsoft Corporation", type |-> "Technology"],
       [symbol |-> "GOOGL", name |-> "Alphabet Inc.", type |-> "Technology"],
       [symbol |-> "META",  name |-> "Meta Platforms Inc.", type |-> "Technology"],
       [symbol |-> "NVDA",  name |-> "NVIDIA Corporation", type |-> "Technology"] >>

LEGACY_COMPANIES ==
    << [symbol |-> "AAPL",  name |-> "Apple Inc.", type |-> "none"],
       [symbol |-> "MSFT",  name |-> "Microsoft Corporation", type |-> "none"],
       [symbol |-> "GOOGL", name |-> "Alphabet Inc.", type |-> "none"],
       [symbol |-> "META",  name |-> "Meta Platforms Inc.", type |-> "none"],
       [symbol |-> "AMZN",  name |-> "Amazon.com Inc.", type |-> "none"] >>

\* the cycle fans out over NumSymbols consecutive entries of the table
Window(table, first) == SubSeq(table, first, first + NumSymbols - 1)

\* the registries a modelled cycle may run over: a window of one category
\* and, for the indicators, a window that spans categories
Registries(p) ==
    IF p = "economic" THEN {Window(INDICATORS, 1), Window(INDICATORS, 4)}
    ELSE IF p = "stocks" THEN {Window(COMPANIES, 1)}
    ELSE {Window(LEGACY_COMPANIES, 1)}

(***************************************************************************)
(* What the upstream may answer to one outbound request.                   *)
(*   status  HTTP status                                                   *)
(*   json    whether the body parses as JSON (response.json() resolves)    *)
(*   data    the parsed body                                               *)
(***************************************************************************)
\* Finnhub quote bodies: c current price, t capture time, pc previous close
FinnhubPayloads ==
    { [c |-> 150, t |-> 1, pc |-> 100],     \* ordinary quote
      [c |-> 0,   t |-> 0, pc |-> 100],     \* the no-data sentinel
      [c |-> 0,   t |-> 1, pc |-> 100],     \* only the price is zero
      [c |-> 150, t |-> 0, pc |-> 100],     \* only the capture time is zero
      [c |-> 150, t |-> 1, pc |-> 0],       \* previous close is zero
      [c |-> 0,   t |-> 1, pc |-> 0] }      \* price and previous close are zero

\* API Ninjas bodies
NinjasPayloads == { [price |-> 150], [price |-> 0] }

NoBody(p) == IF p = "legacy" THEN [price |-> 0] ELSE [c |-> 0, t |-> 0, pc |-> 0]

Payloads(p) == IF p = "legacy" THEN NinjasPayloads ELSE FinnhubPayloads

Responses(p) ==
    { [status |-> 200, json |-> TRUE, data |-> d] : d \in Payloads(p) }
    \cup { [status |-> 200, json |-> FALSE, data |-> NoBody(p)],
           [status |-> RATE_LIMIT, json |-> FALSE, data |-> NoBody(p)],
           [status |-> 500, json |-> FALSE, data |-> NoBody(p)] }

\* response.ok
Ok(resp) == resp.status >= 200 /\ resp.status <= 299

(***************************************************************************)
(* Errors.  `attempt` identifies the loop iteration that raised the error  *)
(* object; `message` is error.message.                                     *)
(***************************************************************************)
HttpError(sym, status, a) ==
    [kind |-> "http", message |-> "API request failed for " \o sym \o ": " \o ToString(status),
     attempt |-> a]

NoDataError(sym, a) ==
    [kind |-> "nodata", message |-> "No data available for " \o sym,
     attempt |-> a]

ParseError(a) ==
    [kind |-> "badjson", message |-> "Unexpected token in JSON",
     attempt |-> a]

TimeoutError(a) ==
    [kind |-> "timeout", message |-> "The operation was aborted due to timeout",
     attempt |-> a]

(***************************************************************************)
(* Pure pieces of the fetch routine.                                       *)
(***************************************************************************)
\* variant: the rate-limit delay scaled by attempt instead of attempt + 1
RateLimitDelay_OffByOne(a) == 1000 * a

\* variant: the rate-limit delay does not grow with the attempt
RateLimitDelay_Flat(a) == 1000

\* setTimeout(resolve, 1000 * (attempt + 1))
RateLimitDelay(a) == 1000 * (a + 1)

\* variant: the backoff does not grow with the attempt
BackoffDelay_Constant(a) == 500

\* setTimeout(resolve, 500 * Math.pow(2, attempt))
BackoffDelay(a) == 500 * 2^a

\* variant: one zero field is enough (|| in place of &&)
IsNoData_EitherZero(data) == data.c = 0 \/ data.t = 0

\* variant: a zero previous close is rejected like the no-data sentinel
IsNoData_OrZeroClose(data) == (data.c = 0 /\ data.t = 0) \/ data.pc = 0

\* data.c === 0 && data.t === 0
IsNoData(data) == data.c = 0 /\ data.t = 0

\* variant: the catch block gives up one attempt early
IsLastAttempt_Early(a, retries) == a >= retries - 1

\* attempt === retries
IsLastAttempt(a, retries) == a = retries

\* variant: the rate-limit branch does not look at the attempt number
RetryRateLimit_AnyAttempt(resp, a, retries) == resp.status = RATE_LIMIT

\* response.status === 429 && attempt < retries
RetryRateLimit(resp, a, retries) == resp.status = RATE_LIMIT /\ a < retries

\* ((data.c - data.pc) / data.pc) * 100 in IEEE arithmetic
ChangePercent(c, pc) ==
    IF pc # 0 THEN <<"number", ((c - pc) * 100) \div pc>>
    ELSE IF c = 0 THEN <<"NaN">>
    ELSE <<"Infinity">>

\* the object returned by fetchIndicator
IndicatorResult(info, data) ==
    [symbol |-> info.symbol, name |-> info.name, type |-> info.type,
     value |-> data.c, previousClose |-> data.pc, change |-> data.c - data.pc,
     changePercent |-> ChangePercent(data.c, data.pc)]

\* the object returned by fetchStockPrice (Finnhub)
StockResult(info, data) ==
    [ticker |-> info.symbol, companyName |-> info.name, sector |-> info.type,
     price |-> data.c, previousClose |-> data.pc, change |-> data.c - data.pc,
     changePercent |-> ChangePercent(data.c, data.pc)]

\* the object returned by fetchStockPrice (API Ninjas)
LegacyResult(info, data) ==
    [ticker |-> info.symbol, companyName |-> info.name, price |-> data.price]

Result(p, info, data) ==
    IF p = "economic" THEN IndicatorResult(info, data)
    ELSE IF p = "stocks" THEN StockResult(info, data)
    ELSE LegacyResult(info, data)

(***************************************************************************)
(* One pass through the try block for the answer `resp` to attempt `a`:    *)
(*   "retry429"  the rate-limit branch: sleep and `continue`               *)
(*   "throw"     an error is raised inside the try block                   *)
(*   "return"    the result object is returned                             *)
(***************************************************************************)
TryBlock(p, info, resp, a, retries) ==
    IF ~Ok(resp)
    THEN IF RetryRateLimit(resp, a, retries)
         THEN [tag |-> "retry429"]
         ELSE [tag |-> "throw", error |-> HttpError(info.symbol, resp.status, a)]
    ELSE IF ~resp.json
    THEN [tag |-> "throw", error |-> ParseError(a)]
    ELSE IF IsNoData(resp.data)
    THEN [tag |-> "throw", error |-> NoDataError(info.symbol, a)]
    ELSE [tag |-> "return", value |-> Result(p, info, resp.data)]

\* the body of the API Ninjas fetchStockPrice: no loop, no sentinel check
LegacyBody(info, resp) ==
    IF ~Ok(resp)
    THEN [tag |-> "throw", error |-> HttpError(info.symbol, resp.status, 0)]
    ELSE IF ~resp.json
    THEN [tag |-> "throw", error |-> ParseError(0)]
    ELSE [tag |-> "return", value |-> LegacyResult(info, resp.data)]

\* whether the pipeline's fetch passes signal: AbortSignal.timeout(5000)
HasTimeout(p) == p \in {"economic", "stocks"}

(***************************************************************************)
(* Pure pieces of the handler.                                             *)
(***************************************************************************)
\* JavaScript truthiness of a string-valued property
Truthy(x) == x \notin {Undefined, Null, ""}

\* variant: the preflight test compares with the wrong spelling
IsPreflight_Lowercase(m) == m = "options"

\* req.method === 'OPTIONS'
IsPreflight(m) == m = "OPTIONS"

\* variant: the method test lets everything but the preflight through
MethodAllowed_NoCheck(m) == TRUE

\* !(req.method !== 'GET')
MethodAllowed(m) == m = "GET"

\* variant: the test is inverted (if (apiKey) ...)
CredentialMissing_Inverted(key) == Truthy(key)

\* variant: only the empty string is rejected (apiKey === '')
CredentialMissing_EmptyOnly(key) == key = ""

\* !apiKey
CredentialMissing(key) == ~Truthy(key)

\* entry.error (undefined when the property is absent)
ErrorOf(e) == IF "error" \in DOMAIN e THEN e.error ELSE Undefined

\* variant: the callback looks up the registry with a stale key
CatchEntry_StaleKey(p, info, err) ==
    IF p = "economic"
    THEN [symbol |-> info.symbol, name |-> INDICATORS[1].name,
          type |-> INDICATORS[1].type, value |-> Null, error |-> err.message]
    ELSE IF p = "stocks"
    THEN [ticker |-> info.symbol, companyName |-> COMPANIES[1].name,
          sector |-> COMPANIES[1].type, price |-> Null, error |-> err.message]
    ELSE [ticker |-> info.symbol, companyName |-> LEGACY_COMPANIES[1].name,
          price |-> Null, error |-> err.message]

\* variant: the callback reads a property the error does not have
CatchEntry_NoMessage(p, info, err) ==
    IF p = "economic"
    THEN [symbol |-> info.symbol, name |-> info.name, type |-> info.type,
          value |-> Null, error |-> Undefined]
    ELSE IF p = "stocks"
    THEN [ticker |-> info.symbol, companyName |-> info.name, sector |-> info.type,
          price |-> Null, error |-> Undefined]
    ELSE [ticker |-> info.symbol, companyName |-> info.name,
          price |-> Null, error |-> Undefined]

\* the object the .catch callback returns for a failed symbol
CatchEntry(p, info, err) ==
    IF p = "economic"
    THEN [symbol |-> info.symbol, name |-> info.name, type |-> info.type,
          value |-> Null, error |-> err.message]
    ELSE IF p = "stocks"
    THEN [ticker |-> info.symbol, companyName |-> info.name, sector |-> info.type,
          price |-> Null, error |-> err.message]
    ELSE [ticker |-> info.symbol, companyName |-> info.name,
          price |-> Null, error |-> err.message]

\* states of one element of the promise array
Fulfilled(v) == [state |-> "fulfilled", value |-> v]

Rejected(err) == [state |-> "rejected", reason |-> err]

\* variant: the per-symbol .catch is missing, a failed fetch rejects
SettledPromise_NoCatch(p, info, res) ==
    IF res.tag = "return" THEN Fulfilled(res.value)
    ELSE Rejected(res.error)

\* fetchX(symbol, apiKey).catch(error => ...), once the fetch has settled
SettledPromise(p, info, res) ==
    IF res.tag = "return" THEN Fulfilled(res.value)
    ELSE Fulfilled(CatchEntry(p, info, res.error))

\* variant: results are collected in completion order (push on settle)
Settle_ArrivalOrder(ps, i, v) ==
    LET k == CHOOSE k \in DOMAIN ps :
                 /\ ps[k].state = "pending"
                 /\ \A j \in DOMAIN ps : j < k => ps[j].state # "pending"
    IN [ps EXCEPT ![k] = v]

\* the promise array is index-aligned with the registry
Settle(ps, i, v) == [ps EXCEPT ![i] = v]

\* Promise.all has an outcome: every promise fulfilled, or one rejected
JoinReady(ps) ==
    \/ \A i \in DOMAIN ps : ps[i].state = "fulfilled"
    \/ \E i \in DOMAIN ps : ps[i].state = "rejected"

JoinRejected(ps) == \E i \in DOMAIN ps : ps[i].state = "rejected"

\* the array Promise.all resolves to
JoinValues(ps) == [i \in DOMAIN ps |-> ps[i].value]

\* variant: some() in place of every()
AllFailed_Some(data) == \E i \in DOMAIN data : Truthy(ErrorOf(data[i]))

\* variant: the predicate of every() is negated
AllFailed_Negated(data) == \A i \in DOMAIN data : ~Truthy(ErrorOf(data[i]))

\* stockData.every(stock => stock.error)
AllFailed(data) == \A i \in DOMAIN data : Truthy(ErrorOf(data[i]))

\* variant: the reduce groups every entry, failed ones included
RECURSIVE GroupByType_NoFilter(_, _)
GroupByType_NoFilter(data, n) ==
    IF n = 0 THEN <<>>
    ELSE LET acc == GroupByType_NoFilter(data, n - 1)
             e == data[n]
         IN IF e.type \in DOMAIN acc
            THEN [acc EXCEPT ![e.type] = Append(@, e)]
            ELSE [k \in DOMAIN acc \cup {e.type} |->
                    IF k = e.type THEN <<e>> ELSE acc[k]]

\* indicatorData.reduce((acc, indicator) => ..., {}) over data[1..n]
RECURSIVE GroupByType(_, _)
GroupByType(data, n) ==
    IF n = 0 THEN <<>>
    ELSE LET acc == GroupByType(data, n - 1)
             e == data[n]
         IN IF ~Truthy(ErrorOf(e))
            THEN IF e.type \in DOMAIN acc
                 THEN [acc EXCEPT ![e.type] = Append(@, e)]
                 ELSE [k \in DOMAIN acc \cup {e.type} |->
                         IF k = e.type THEN <<e>> ELSE acc[k]]
            ELSE acc

\* variant: the Allow-Headers header is not set
CorsHeaders_NoAllowHeaders ==
    { <<"Access-Control-Allow-Origin", "*">>,
      <<"Access-Control-Allow-Methods", "GET, OPTIONS">> }

CorsHeaders ==
    { <<"Access-Control-Allow-Origin", "*">>,
      <<"Access-Control-Allow-Methods", "GET, OPTIONS">>,
      <<"Access-Control-Allow-Headers", "Content-Type">> }

(***************************************************************************)
(* The request cycle.                                                      *)
(***************************************************************************)
Methods == {"GET", "OPTIONS", "POST"}

ApiKeys == {Undefined, "", "key"}

NodeEnvs == {"development", "production"}

\* variant: the default of `retries` is one higher
Retries_OneMore(p) == IF p = "legacy" THEN 0 ELSE maxRetries + 1

\* the number of retries of a fetch: the API Ninjas fetch has no loop
Retries(p) == IF p = "legacy" THEN 0 ELSE maxRetries

\* the handlers whose fetch has the retry loop and the timeout
TimedPipelines == {p \in Pipelines : HasTimeout(p)}

\* nothing of the cycle has run yet
Fresh ==
    /\ hpc = "start"
    /\ headers = {}
    /\ response = NoResponse
    /\ sent = 0
    /\ caught = NoError
    /\ fpc = [i \in Idx |-> "idle"]
    /\ attempt = [i \in Idx |-> 0]
    /\ calls = [i \in Idx |-> 0]
    /\ delays = [i \in Idx |-> <<>>]
    /\ got429 = [i \in Idx |-> <<>>]
    /\ body = [i \in Idx |-> NoBody(pipeline)]
    /\ fres = [i \in Idx |-> NoResult]
    /\ entries = [i \in Idx |-> Pending]
    /\ elapsed = [i \in Idx |-> 0]

\* a request arrives; the handler calls the fetch without a third argument.
\* NODE_ENV is read by the outermost catch only, which this specification
\* does not reach
Init ==
    /\ pipeline \in Pipelines
    /\ registry \in Registries(pipeline)
    /\ method \in Methods
    /\ apiKey \in ApiKeys
    /\ nodeEnv = "production"
    /\ maxRetries = DEFAULT_RETRIES
    /\ timed = FALSE
    /\ Fresh

\* a request arrives in a runtime that may raise an exception in the handler
FaultInit ==
    /\ pipeline \in Pipelines
    /\ registry \in Registries(pipeline)
    /\ method \in Methods
    /\ apiKey \in ApiKeys
    /\ nodeEnv \in NodeEnvs
    /\ maxRetries = DEFAULT_RETRIES
    /\ timed = FALSE
    /\ Fresh

\* a GET request with the credential set arrives at a handler with timeouts,
\* and the waits of its fetches are measured
TimedInit ==
    /\ pipeline \in TimedPipelines
    /\ registry \in Registries(pipeline)
    /\ method = "GET"
    /\ apiKey = "key"
    /\ nodeEnv = "production"
    /\ maxRetries = DEFAULT_RETRIES
    /\ timed = TRUE
    /\ Fresh

\* a direct call fetchX(symbol, apiKey, r) for the first registry symbol has
\* run up to its first await
FetchInit ==
    /\ pipeline \in TimedPipelines
    /\ registry \in Registries(pipeline)
    /\ method = "GET"
    /\ apiKey = "key"
    /\ nodeEnv = "production"
    /\ maxRetries \in 0..MaxRetries
    /\ timed = FALSE
    /\ hpc = "awaiting"
    /\ headers = {}
    /\ response = NoResponse
    /\ sent = 0
    /\ caught = NoError
    /\ fpc = [i \in Idx |-> IF i = 1 THEN "inflight" ELSE "idle"]
    /\ attempt = [i \in Idx |-> 0]
    /\ calls = [i \in Idx |-> IF i = 1 THEN 1 ELSE 0]
    /\ delays = [i \in Idx |-> <<>>]
    /\ got429 = [i \in Idx |-> <<>>]
    /\ body = [i \in Idx |-> NoBody(pipeline)]
    /\ fres = [i \in Idx |-> NoResult]
    /\ entries = [i \in Idx |-> Pending]
    /\ elapsed = [i \in Idx |-> 0]

\* the fetch of symbol i has waited ms more
Waited(i, ms) ==
    elapsed' = IF timed THEN [elapsed EXCEPT ![i] = @ + ms] ELSE elapsed

\* variant: the response is sent without `return`, the handler goes on
Send_NoReturn(resp) ==
    /\ response' = resp
    /\ sent' = sent + 1
    /\ hpc' = hpc

\* return res.status(s).json(body) / return res.status(s).end()
Send(resp) ==
    /\ response' = resp
    /\ sent' = sent + 1
    /\ hpc' = "done"

\* variant: the handler awaits each fetch before it starts the next one
\* (for ... of with await in place of map): only the first symbol starts
StartFetches_OneAtATime ==
    /\ fpc' = [fpc EXCEPT ![1] = "inflight"]
    /\ calls' = [calls EXCEPT ![1] = @ + 1]

\* tickers.map(ticker => fetchStockPrice(ticker, apiKey)...): every call runs
\* synchronously up to its first await, the outbound fetch of attempt 0
StartFetches ==
    /\ fpc' = [i \in Idx |-> "inflight"]
    /\ calls' = [i \in Idx |-> calls[i] + 1]

(***************************************************************************)
(* The handler up to `await Promise.all(...)`: CORS headers, method        *)
(* dispatch, credential check, and the map() that calls the fetch of every *)
(* registry symbol; each call runs synchronously up to its first await,    *)
(* which issues the first outbound request.                                *)
(***************************************************************************)
HandleRequest ==
    /\ hpc = "start"
    /\ headers' = CorsHeaders
    /\ IF IsPreflight(method)
       THEN /\ Send([status |-> 200, ended |-> TRUE])
            /\ UNCHANGED fetchVars
       ELSE IF ~MethodAllowed(method)
       THEN /\ Send([status |-> 405, error |-> "Method not allowed",
                     message |-> "Only GET requests are supported"])
            /\ UNCHANGED fetchVars
       ELSE IF CredentialMissing(apiKey)
       THEN /\ Send([status |-> 500, error |-> "Configuration error",
                     message |-> "API key not configured. Please set API_KEY environment variable."])
            /\ UNCHANGED fetchVars
       ELSE /\ StartFetches
            /\ hpc' = "awaiting"
            /\ UNCHANGED <<response, sent, attempt, delays, got429, body, fres, entries>>
    /\ UNCHANGED <<caught, envVars, elapsed>>

\* the fetch of symbol i ends (returns or throws); its promise, with the
\* .catch callback applied, settles in the same turn
Finish(i, res) ==
    /\ fpc' = [fpc EXCEPT ![i] = IF res.tag = "return" THEN "returned" ELSE "thrown"]
    /\ fres' = [fres EXCEPT ![i] = res]
    /\ entries' = Settle(entries, i, SettledPromise(pipeline, registry[i], res))
    /\ UNCHANGED <<attempt, calls, delays>>

\* variant: `attempt` is a counter shared by the fetches of the cycle: a
\* failure of one symbol uses up an attempt of every other symbol
Sleep_SharedCounter(i, ms) ==
    /\ fpc' = [fpc EXCEPT ![i] = "backoff"]
    /\ delays' = [delays EXCEPT ![i] = Append(@, ms)]
    /\ attempt' = [j \in Idx |-> IF j = i \/ attempt[j] >= DEFAULT_RETRIES
                                 THEN attempt[j] ELSE attempt[j] + 1]
    /\ UNCHANGED <<calls, fres, entries>>

\* await new Promise(resolve => setTimeout(resolve, ms))
Sleep(i, ms) ==
    /\ fpc' = [fpc EXCEPT ![i] = "backoff"]
    /\ delays' = [delays EXCEPT ![i] = Append(@, ms)]
    /\ UNCHANGED <<attempt, calls, fres, entries>>

\* variant: the catch block rethrows at once, no failure is retried
CatchBlock_NoRetry(i, err) == Finish(i, [tag |-> "throw", error |-> err])

\* catch (error) { if (attempt === retries) throw error; await sleep }
CatchBlock(i, err) ==
    IF IsLastAttempt(attempt[i], Retries(pipeline))
    THEN Finish(i, [tag |-> "throw", error |-> err])
    ELSE Sleep(i, BackoffDelay(attempt[i]))

\* what the fetch of symbol i does with the outcome of its current attempt
Continue(i, out) ==
    IF pipeline = "legacy"
    THEN Finish(i, out)
    ELSE IF out.tag = "return" THEN Finish(i, out)
    ELSE IF out.tag = "retry429" THEN Sleep(i, RateLimitDelay(attempt[i]))
    ELSE CatchBlock(i, out.error)

\* the upstream answers the request in flight for symbol i
UpstreamResponds(i) ==
    /\ hpc = "awaiting"
    /\ fpc[i] = "inflight"
    /\ \E resp \in Responses(pipeline) :
         /\ got429' = [got429 EXCEPT ![i] = Append(@, resp.status = RATE_LIMIT)]
         /\ body' = [body EXCEPT ![i] = resp.data]
         /\ Continue(i, IF pipeline = "legacy"
                        THEN LegacyBody(registry[i], resp)
                        ELSE TryBlock(pipeline, registry[i], resp, attempt[i],
                                      Retries(pipeline)))
    /\ UNCHANGED <<envVars, hpc, headers, response, sent, caught, elapsed>>

\* the abort timer of the request in flight for symbol i fires: fetch
\* rejects with a TimeoutError, which the catch block handles
CallTimesOut(i) ==
    /\ hpc = "awaiting"
    /\ fpc[i] = "inflight"
    /\ HasTimeout(pipeline)
    /\ got429' = [got429 EXCEPT ![i] = Append(@, FALSE)]
    /\ body' = [body EXCEPT ![i] = NoBody(pipeline)]
    /\ CatchBlock(i, TimeoutError(attempt[i]))
    /\ Waited(i, TIMEOUT_MS)
    /\ UNCHANGED <<envVars, hpc, headers, response, sent, caught>>

\* the sleep of symbol i ends: attempt++, loop test, next outbound request;
\* when the loop test fails the function ends without a return value
BackoffElapsed(i) ==
    /\ hpc = "awaiting"
    /\ fpc[i] = "backoff"
    /\ attempt' = [attempt EXCEPT ![i] = @ + 1]
    /\ IF attempt[i] + 1 <= Retries(pipeline)
       THEN /\ fpc' = [fpc EXCEPT ![i] = "inflight"]
            /\ calls' = [calls EXCEPT ![i] = @ + 1]
            /\ UNCHANGED <<fres, entries>>
       ELSE /\ fpc' = [fpc EXCEPT ![i] = "returned"]
            /\ fres' = [fres EXCEPT ![i] = [tag |-> "undefined"]]
            /\ entries' = Settle(entries, i, Fulfilled([undefined |-> TRUE]))
            /\ UNCHANGED calls
    /\ Waited(i, delays[i][Len(delays[i])])
    /\ UNCHANGED <<delays, got429, body>>
    /\ UNCHANGED <<envVars, hpc, headers, response, sent, caught>>

\* variant: the exception text is always put in the body
Details_Always(env, err) == err.message

\* process.env.NODE_ENV === 'development' ? error.message : undefined
Details(env, err) == IF env = "development" THEN err.message ELSE Undefined

\* the body sent by catch (error) at the outermost boundary
InternalError(err) ==
    [status |-> 500, error |-> "Internal server error",
     message |-> "An unexpected error occurred",
     details |-> Details(nodeEnv, err)]

\* stock.error read on a value that is undefined
UndefinedEntryError ==
    [kind |-> "type", message |-> "Cannot read properties of undefined",
     attempt |-> 0]

\* an exception raised by the runtime inside the try block of the handler
RuntimeFault ==
    [kind |-> "fault", message |-> "unexpected fault", attempt |-> 0]

\* the exception the code after `await Promise.all(...)` raises, if any
Escaping(ps) ==
    IF JoinRejected(ps)
    THEN LET i == CHOOSE k \in DOMAIN ps : ps[k].state = "rejected"
         IN ps[i].reason
    ELSE IF \E i \in DOMAIN ps : "undefined" \in DOMAIN ps[i].value
    THEN UndefinedEntryError
    ELSE NoError

\* the code after `await Promise.all(...)`
Decide(data) ==
    IF AllFailed(data)
    THEN [status |-> 503, error |-> "Service unavailable",
          message |-> "Unable to fetch data from API", data |-> data]
    ELSE IF pipeline = "economic"
    THEN [status |-> 200, success |-> TRUE, data |-> data,
          grouped |-> GroupByType(data, Len(data))]
    ELSE [status |-> 200, success |-> TRUE, data |-> data]

\* Promise.all has an outcome and the handler resumes
Respond ==
    /\ hpc = "awaiting"
    /\ JoinReady(entries)
    /\ caught' = Escaping(entries)
    /\ IF Escaping(entries) # NoError
       THEN Send(InternalError(Escaping(entries)))
       ELSE Send(Decide(JoinValues(entries)))
    /\ UNCHANGED <<envVars, headers, elapsed>>
    /\ UNCHANGED fetchVars

\* a statement of the try block raises an exception of its own when the
\* handler resumes: the outermost catch answers
UnexpectedFault ==
    /\ hpc = "awaiting"
    /\ JoinReady(entries)
    /\ caught' = RuntimeFault
    /\ Send(InternalError(RuntimeFault))
    /\ UNCHANGED <<envVars, headers, elapsed>>
    /\ UNCHANGED fetchVars

Next ==
    \/ HandleRequest
    \/ \E i \in Idx : UpstreamResponds(i)
    \/ \E i \in Idx : CallTimesOut(i)
    \/ \E i \in Idx : BackoffElapsed(i)
    \/ Respond

Spec == Init /\ [][Next]_vars

\* the cycle in a runtime that may raise an exception inside the try block
FaultNext ==
    \/ Next
    \/ UnexpectedFault

FaultSpec == FaultInit /\ [][FaultNext]_vars

\* the cycle with its waits measured
TimedSpec == TimedInit /\ [][Next]_vars

\* the steps of a fetch that was called directly
FetchNext ==
    \/ \E i \in Idx : UpstreamResponds(i)
    \/ \E i \in Idx : CallTimesOut(i)
    \/ \E i \in Idx : BackoffElapsed(i)

FetchSpec == FetchInit /\ [][FetchNext]_vars

\* timers fire and runnable continuations run; the upstream owes no answer
FairSpec ==
    /\ Spec
    /\ WF_vars(HandleRequest)
    /\ WF_vars(Respond)
    /\ \A i \in Idx : WF_vars(CallTimesOut(i))
    /\ \A i \in Idx : WF_vars(BackoffElapsed(i))

TypeOK ==
    /\ pipeline \in Pipelines
    /\ hpc \in {"start", "awaiting", "done"}
    /\ sent \in 0..1
    /\ \A i \in Idx : fpc[i] \in {"idle", "inflight", "backoff", "returned", "thrown"}
    /\ \A i \in Idx : attempt[i] \in 0..Retries(pipeline)

(***************************************************************************)
(* Vocabulary of the properties.                                           *)
(***************************************************************************)
\* the identifier an entry carries (ticker for stocks, symbol for indicators)
IdOf(e) == IF "ticker" \in DOMAIN e THEN e.ticker ELSE e.symbol

\* the entry is the Failure variant: it carries a non-empty error message
HasError(e) == "error" \in DOMAIN e /\ e.error \notin {"", "undefined", "null"}

\* the fetch of symbol i has ended
Settled(i) == fpc[i] \in {"returned", "thrown"}

\* the fan-out of this cycle has started
FannedOut == \E i \in Idx : calls[i] > 0

\* a response with a data sequence has been sent
DataSent == hpc = "done" /\ "data" \in DOMAIN response

\* entry e is what the fetch of symbol i ended with
ResultOfFetch(i, e) ==
    /\ fres[i].tag \in {"return", "throw"}
    /\ fres[i].tag = "return" => e = fres[i].value
    /\ fres[i].tag = "throw" => HasError(e) /\ e.error = fres[i].error.message

(***************************************************************************)
(* C1: in every 200 or 503 response of a GET cycle that fanned out, `data` *)
(* has exactly one entry per registry symbol, and entry i carries the      *)
(* identifier of the i-th registry symbol and is the outcome of that       *)
(* symbol's own fetch, whatever the outcomes and the completion order.     *)
(***************************************************************************)
C1_OneEntryPerSymbolInOrder ==
    (hpc = "done" /\ FannedOut /\ response.status \in {200, 503}) =>
        /\ "data" \in DOMAIN response
        /\ DOMAIN response.data = 1..Len(registry)
        /\ \A i \in 1..Len(registry) :
             /\ IdOf(response.data[i]) = registry[i].symbol
             /\ ResultOfFetch(i, response.data[i])

\* the first symbol failed after three requests, the second succeeded at once
C1_Witness ==
    /\ DataSent
    /\ response.status = 200
    /\ calls[1] = 3 /\ calls[2] = 1
    /\ HasError(response.data[1])
    /\ ~HasError(response.data[2])

(***************************************************************************)
(* C2: once a fetch of the cycle has failed, in whatever way, the response *)
(* sent is a 200 or a 503, never the generic 500, and the failed symbol's  *)
(* place in `data` holds a Failure entry with the message of the error.    *)
(***************************************************************************)
C2_FetchFailureContained ==
    (hpc = "done" /\ \E i \in Idx : fres[i].tag = "throw") =>
        /\ response.status \in {200, 503}
        /\ \A i \in Idx :
             fres[i].tag = "throw" =>
                 /\ HasError(response.data[i])
                 /\ response.data[i].error = fres[i].error.message

\* a timeout on the last attempt of one symbol, a Success for another
C2_Witness ==
    /\ DataSent
    /\ \E i, j \in Idx :
         /\ fres[i].tag = "throw" /\ fres[i].error.kind = "timeout"
         /\ fres[j].tag = "return"

(***************************************************************************)
(* C3: if every fetch of the cycle failed, the response is 503 with error  *)
(* "Service unavailable" and `data` is the Failure entries, one per        *)
(* registry symbol.                                                        *)
(***************************************************************************)
C3_AllFailedIs503 ==
    (hpc = "done" /\ \A i \in Idx : fres[i].tag = "throw") =>
        /\ response.status = 503
        /\ response.error = "Service unavailable"
        /\ DOMAIN response.data = 1..Len(registry)
        /\ \A i \in Idx :
             /\ HasError(response.data[i])
             /\ IdOf(response.data[i]) = registry[i].symbol
             /\ response.data[i].error = fres[i].error.message

\* all fetches failed, for different reasons
C3_Witness ==
    /\ DataSent
    /\ response.status = 503
    /\ fres[1].tag = "throw" /\ fres[1].error.kind = "nodata"
    /\ fres[2].tag = "throw" /\ fres[2].error.kind = "http"

(***************************************************************************)
(* C4: if at least one fetch of the cycle returned a result, the response  *)
(* is 200 with success = true and `data` the full ordered mix of Success   *)
(* and Failure entries; a 503 is sent only when every fetch failed.        *)
(***************************************************************************)
C4_AnySuccessIs200 ==
    /\ (hpc = "done" /\ \E i \in Idx : fres[i].tag = "return") =>
          /\ response.status = 200
          /\ response.success = TRUE
          /\ DOMAIN response.data = 1..Len(registry)
          /\ \A i \in Idx :
               /\ IdOf(response.data[i]) = registry[i].symbol
               /\ HasError(response.data[i]) <=> fres[i].tag = "throw"
    /\ (hpc = "done" /\ response.status = 503) =>
          \A i \in Idx : fres[i].tag = "throw"

\* one success and one failure
C4_Witness ==
    /\ DataSent
    /\ response.status = 200
    /\ fres[1].tag = "return"
    /\ fres[2].tag = "throw"

(***************************************************************************)
(* C5: in the 200 response of the indicator handler, `grouped` is the      *)
(* Success entries of `data` partitioned by type: its keys are the types   *)
(* that have a Success, each key holds that type's Success entries in      *)
(* registry order, no Failure entry is in a group, and `data` still holds  *)
(* an entry for every symbol, failed ones included.                        *)
(***************************************************************************)
C5_GroupedIsPartitionOfSuccesses ==
    (hpc = "done" /\ FannedOut /\ pipeline = "economic" /\ response.status = 200) =>
        LET data == response.data
            g == response.grouped
            ok == {i \in DOMAIN data : ~HasError(data[i])}
            inType(k) == {i \in ok : data[i].type = k}
        IN /\ DOMAIN data = 1..Len(registry)
           /\ \A i \in Idx : fres[i].tag = "throw" => HasError(data[i])
           /\ DOMAIN g = {data[i].type : i \in ok}
           /\ \A k \in DOMAIN g :
                /\ Len(g[k]) = Cardinality(inType(k))
                /\ \A n \in 1..Len(g[k]) :
                     \E i \in inType(k) :
                        /\ g[k][n] = data[i]
                        /\ Cardinality({j \in inType(k) : j < i}) = n - 1

\* two categories in the registry, the symbol of the first one failed
C5_Witness ==
    /\ DataSent
    /\ pipeline = "economic"
    /\ response.status = 200
    /\ registry[1].type # registry[2].type
    /\ HasError(response.data[1])
    /\ DOMAIN response.grouped = {registry[2].type}

(***************************************************************************)
(* C6: a GET cycle without the credential never issues an outbound call,   *)
(* and its response is 500 with error "Configuration error".               *)
(***************************************************************************)
C6_NoCredentialNoOutboundCall ==
    (method = "GET" /\ apiKey = Undefined) =>
        /\ \A i \in Idx : calls[i] = 0
        /\ hpc # "awaiting"
        /\ hpc = "done" =>
             /\ response.status = 500
             /\ response.error = "Configuration error"

\* the configuration error has been sent
C6_Witness ==
    /\ hpc = "done"
    /\ method = "GET"
    /\ apiKey = Undefined
    /\ response.status = 500
    /\ sent = 1

(***************************************************************************)
(* C7: a fetch with the default retries that got a rate-limit status on    *)
(* attempts 0 and 1 and a valid payload on attempt 2 has returned a        *)
(* Success after exactly three outbound requests and exactly the two       *)
(* delays 1000 ms and 2000 ms, in that order.                              *)
(***************************************************************************)
C7_TwoRateLimitsThenSuccess ==
    \A i \in Idx :
        (pipeline # "legacy" /\ fpc[i] = "returned"
            /\ got429[i] = <<TRUE, TRUE, FALSE>>) =>
            /\ fres[i].tag = "return"
            /\ ~HasError(fres[i].value)
            /\ IdOf(fres[i].value) = registry[i].symbol
            /\ calls[i] = 3
            /\ delays[i] = <<1000, 2000>>

\* such a fetch has returned
C7_Witness ==
    \E i \in Idx :
        /\ fpc[i] = "returned"
        /\ got429[i] = <<TRUE, TRUE, FALSE>>
        /\ attempt[i] = 2

(***************************************************************************)
(* C8: a fetch that throws does so with the error raised by attempt number *)
(* retries, after retries + 1 requests; when that last attempt got a       *)
(* rate-limit status the error is the one for status 429, whatever the     *)
(* earlier attempts failed with.                                           *)
(***************************************************************************)
C8_LastAttemptErrorSurfaces ==
    \A i \in Idx :
        (pipeline # "legacy" /\ fpc[i] = "thrown") =>
            /\ fres[i].tag = "throw"
            /\ fres[i].error.attempt = DEFAULT_RETRIES
            /\ calls[i] = DEFAULT_RETRIES + 1
            /\ Len(got429[i]) = DEFAULT_RETRIES + 1
            /\ got429[i][DEFAULT_RETRIES + 1] <=>
                 fres[i].error.message =
                     "API request failed for " \o registry[i].symbol \o ": 429"

\* attempt 0 failed for another reason, attempts 1 and 2 were rate limited
C8_Witness ==
    \E i \in Idx :
        /\ fpc[i] = "thrown"
        /\ got429[i] = <<FALSE, TRUE, TRUE>>
        /\ delays[i] = <<500, 2000>>

(***************************************************************************)
(* C9: every GET cycle that fanned out eventually sends its response, the  *)
(* upstream being free never to answer a call: a call without answer is    *)
(* abandoned by its 5 second timer.                                        *)
(***************************************************************************)
C9_CycleEventuallyResponds == (hpc = "awaiting") ~> (hpc = "done")

\* the same for the two handlers whose fetch passes AbortSignal.timeout
C9_TimedPipelinesRespond ==
    (hpc = "awaiting" /\ HasTimeout(pipeline)) ~> (hpc = "done")

(***************************************************************************)
(* C10: a response of a cycle that fanned out is sent only when the fetch  *)
(* of every symbol has ended; no response is sent while a fetch is in      *)
(* flight or backing off.                                                  *)
(***************************************************************************)
C10_ResponseAfterAllSettled ==
    (hpc = "done" /\ FannedOut) =>
        /\ \A i \in Idx : Settled(i)
        /\ \A i \in Idx : entries[i].state = "fulfilled"
        /\ response.status \in {200, 503}

\* one symbol failed by timeouts while the other went through two
\* rate-limit delays before it succeeded
C10_Witness ==
    /\ DataSent
    /\ \E i, j \in Idx :
         /\ fres[i].tag = "throw" /\ fres[i].error.kind = "timeout"
         /\ delays[i] = <<500, 1000>>
         /\ fres[j].tag = "return" /\ delays[j] = <<1000, 2000>>


(***************************************************************************)
(* C11: an OPTIONS request is answered 200 with an empty body (the         *)
(* response is ended without a payload) and the three CORS headers,        *)
(* whether or not the credential is configured, and no outbound call is    *)
(* ever issued in such a cycle.                                            *)
(***************************************************************************)
C11_PreflightAnswered ==
    (method = "OPTIONS") =>
        /\ \A i \in Idx : calls[i] = 0
        /\ hpc # "awaiting"
        /\ hpc = "done" =>
             /\ response = [status |-> 200, ended |-> TRUE]
             /\ headers = { <<"Access-Control-Allow-Origin", "*">>,
                            <<"Access-Control-Allow-Methods", "GET, OPTIONS">>,
                            <<"Access-Control-Allow-Headers", "Content-Type">> }

\* a preflight answered while the credential is not configured
C11_Witness ==
    /\ hpc = "done"
    /\ method = "OPTIONS"
    /\ apiKey = Undefined
    /\ response.status = 200
    /\ sent = 1

(***************************************************************************)
(* C12: a request whose method is neither GET nor OPTIONS is answered 405  *)
(* with a body of exactly the two properties error and message; the cycle  *)
(* ends there, with the credential configured or not, and no outbound call *)
(* is ever issued.                                                         *)
(***************************************************************************)
C12_OtherMethodIs405 ==
    (method \notin {"GET", "OPTIONS"}) =>
        /\ \A i \in Idx : calls[i] = 0
        /\ hpc # "awaiting"
        /\ hpc = "done" =>
             /\ response.status = 405
             /\ DOMAIN response = {"status", "error", "message"}
             /\ response.error = "Method not allowed"

\* a POST answered 405 while the credential is not configured
C12_Witness ==
    /\ hpc = "done"
    /\ method = "POST"
    /\ apiKey = Undefined
    /\ response.status = 405
    /\ sent = 1

(***************************************************************************)
(* C13: every response sent, whatever its status, goes out with the three  *)
(* CORS headers set.                                                       *)
(***************************************************************************)
C13_CorsOnEveryResponse ==
    (sent > 0) =>
        /\ response.status \in {200, 405, 500, 503}
        /\ <<"Access-Control-Allow-Origin", "*">> \in headers
        /\ <<"Access-Control-Allow-Methods", "GET, OPTIONS">> \in headers
        /\ <<"Access-Control-Allow-Headers", "Content-Type">> \in headers

\* a 503 sent with the headers
C13_Witness ==
    /\ sent = 1
    /\ response.status = 503
    /\ Cardinality(headers) = 3


(***************************************************************************)
(* C14: when an exception reaches the outermost catch of the handler, the  *)
(* response is 500 with error "Internal server error"; its `details`       *)
(* carries the exception text only when NODE_ENV is 'development', and in  *)
(* production the body holds no exception text.                            *)
(***************************************************************************)
C14_DetailsOnlyOutsideProduction ==
    /\ (caught # NoError) =>
          /\ hpc = "done"
          /\ response.status = 500
          /\ response.error = "Internal server error"
          /\ response.details \in {"undefined", caught.message}
          /\ response.details = caught.message => nodeEnv # "production"
          /\ nodeEnv = "production" => response.details = "undefined"
          /\ response.message # caught.message
    /\ (hpc = "done" /\ FannedOut /\ response.status = 500) => caught # NoError

\* an exception was caught in production and the generic 500 was sent
C14_Witness ==
    /\ hpc = "done"
    /\ caught # NoError
    /\ nodeEnv = "production"
    /\ response.status = 500
    /\ response.details = "undefined"


\* the latest answer for symbol i was a parsed quote with previous close 0
\* that is not the no-data sentinel
ZeroCloseQuote(i) ==
    /\ pipeline # "legacy"
    /\ Len(got429[i]) > 0
    /\ body[i].pc = 0
    /\ ~(body[i].c = 0 /\ body[i].t = 0)

C16_AbsentCredentialAlways500 ==
    (hpc = "done" /\ apiKey = Undefined) =>
        /\ response.status = 500
        /\ response.error = "Configuration error"

(***************************************************************************)
(* C16 as amended: with the credential absent, every GET request ends in   *)
(* the 500 configuration-error response; the method is dispatched before   *)
(* the credential is read, so an OPTIONS request is answered 200 and any   *)
(* other method 405.                                                       *)
(***************************************************************************)
C16_AbsentCredentialByMethod ==
    (hpc = "done" /\ apiKey = Undefined) =>
        /\ method = "GET" =>
             /\ response.status = 500
             /\ response.error = "Configuration error"
             /\ DOMAIN response = {"status", "error", "message"}
        /\ method = "OPTIONS" => response.status = 200
        /\ method \notin {"GET", "OPTIONS"} => response.status = 405
        /\ ~FannedOut

\* the precondition failure of a GET request
C16_Witness ==
    /\ hpc = "done"
    /\ apiKey = Undefined
    /\ method = "GET"
    /\ response.error = "Configuration error"
    /\ headers # {}


\* outbound requests of symbol i that have neither been answered nor timed out
Outstanding(i) == calls[i] - Len(got429[i])

(***************************************************************************)
(* C17 relates two request cycles that differ in the credential value; it  *)
(* is a property of pairs of behaviours and has no formula here.           *)
(***************************************************************************)

(***************************************************************************)
(* C18: a fetch has at most one outbound request outstanding at any time,  *)
(* issues request k + 1 only after request k was answered or timed out,    *)
(* issues at most retries + 1 = 3 requests (one in the handler without     *)
(* retry), and once it has returned a result no request is outstanding or  *)
(* issued any more.                                                        *)
(***************************************************************************)
C18_RequestsSequentialAndBounded ==
    \A i \in Idx :
        /\ calls[i] <= (IF pipeline = "legacy" THEN 1 ELSE 3)
        /\ Outstanding(i) \in {0, 1}
        /\ Outstanding(i) = 1 <=> fpc[i] = "inflight"
        /\ fpc[i] \in {"inflight", "backoff"} => calls[i] = attempt[i] + 1
        /\ fres[i].tag = "return" =>
             /\ fpc[i] = "returned"
             /\ Outstanding(i) = 0
             /\ calls[i] = attempt[i] + 1
             /\ got429[i][Len(got429[i])] = FALSE

\* a fetch returned on its third request while the other returned at once
C18_Witness ==
    \E i, j \in Idx :
        /\ fres[i].tag = "return" /\ calls[i] = 3
        /\ fres[j].tag = "return" /\ calls[j] = 1
        /\ hpc = "done"


(***************************************************************************)
(* C19: in the handlers with retry, a symbol's Failure entry exists only   *)
(* when its fetch made all retries + 1 = 3 requests, waited a delay after  *)
(* each of the first two and threw on the last one; a fetch that has not   *)
(* yet used all its attempts has not thrown, whatever its attempts failed  *)
(* with.                                                                   *)
(***************************************************************************)
C19_FailureOnlyAfterAllAttempts ==
    \A i \in Idx :
        (pipeline # "legacy") =>
            /\ (entries[i].state = "fulfilled" /\ HasError(entries[i].value)) =>
                  /\ fres[i].tag = "throw"
                  /\ calls[i] = 3
                  /\ Len(got429[i]) = 3
                  /\ Len(delays[i]) = 2
                  /\ fres[i].error.attempt = 2
            /\ (DataSent /\ HasError(response.data[i])) => calls[i] = 3
            /\ (Len(got429[i]) \in 1..2 /\ fres[i].tag # "return") =>
                  /\ fpc[i] \in {"inflight", "backoff"}
                  /\ entries[i].state = "pending"
                  /\ Len(delays[i]) = Len(got429[i])

\* a symbol whose third request answered "no data" has a Failure entry,
\* after two earlier failed attempts that were each followed by a delay
C19_Witness ==
    \E i \in Idx :
        /\ pipeline = "stocks"
        /\ entries[i].state = "fulfilled"
        /\ HasError(entries[i].value)
        /\ fres[i].tag = "throw"
        /\ fres[i].error.kind = "nodata"
        /\ calls[i] = 3
        /\ Len(delays[i]) = 2

(***************************************************************************)
(* C20: in the handlers with retry, exactly one delay is waited between    *)
(* attempt k and attempt k + 1: 1000 * (k + 1) ms when attempt k got the   *)
(* rate-limit status, 500 * 2^k ms otherwise; and no delay is waited after *)
(* the attempt that ended the fetch.                                       *)
(***************************************************************************)
C20_OneDelayBetweenAttempts ==
    \A i \in Idx :
        (pipeline # "legacy") =>
            /\ Len(delays[i]) =
                 IF fpc[i] \in {"returned", "thrown"}
                 THEN Len(got429[i]) - 1
                 ELSE Len(got429[i])
            /\ fpc[i] = "inflight" => Len(delays[i]) = attempt[i]
            /\ fpc[i] = "backoff" => Len(delays[i]) = attempt[i] + 1
            /\ \A k \in 1..Len(delays[i]) :
                 delays[i][k] = IF got429[i][k]
                                THEN (IF k = 1 THEN 1000 ELSE 2000)
                                ELSE (IF k = 1 THEN 500 ELSE 1000)

\* a rate limit after attempt 0, another failure after attempt 1, and a
\* failure on the last attempt, after which nothing was waited
C20_Witness ==
    \E i \in Idx :
        /\ fpc[i] = "thrown"
        /\ got429[i] = <<TRUE, FALSE, FALSE>>
        /\ delays[i] = <<1000, 1000>>


(***************************************************************************)
(* C21 as stated: within one fetch, whatever the mix of rate-limit and     *)
(* other failures, the delay waited after attempt k + 1 is longer than the *)
(* delay waited after attempt k.                                           *)
(***************************************************************************)
C21_DelaysStrictlyIncrease ==
    \A i \in Idx :
        \A k \in 1..(Len(delays[i]) - 1) : delays[i][k + 1] > delays[i][k]

(***************************************************************************)
(* C21 as amended: within one fetch the delay waited after attempt k + 1   *)
(* is never shorter than the delay waited after attempt k; it is longer    *)
(* except when attempt k got the rate-limit status and attempt k + 1       *)
(* failed in another way, where both delays are 1000 ms.                   *)
(***************************************************************************)
C21_DelaysNeverDecrease ==
    \A i \in Idx :
        \A k \in 1..(Len(delays[i]) - 1) :
            /\ delays[i][k + 1] >= delays[i][k]
            /\ delays[i][k + 1] = delays[i][k] <=>
                  (got429[i][k] /\ ~got429[i][k + 1])
            /\ delays[i][k + 1] = delays[i][k] => delays[i][k] = 1000

\* a rate limit on attempt 0 and a timeout on attempt 1: two equal delays
C21_Witness ==
    \E i \in Idx :
        /\ fpc[i] = "backoff"
        /\ attempt[i] = 1
        /\ got429[i] = <<TRUE, FALSE>>
        /\ delays[i] = <<1000, 1000>>


\* the latest answer for symbol i was a 2xx answer with a parsed quote body
ParsedQuote(i) ==
    /\ pipeline # "legacy"
    /\ Len(got429[i]) > 0
    /\ body[i] # [c |-> 0, t |-> 0, pc |-> 0]

\* the current value the result of symbol i carries
ValueOf(e) == IF "price" \in DOMAIN e THEN e.price ELSE e.value

(***************************************************************************)
(* C22: a parsed 2xx quote is a failed attempt ("no data") exactly when    *)
(* both its current value and its capture time are zero: then no result is *)
(* returned, the attempt is retried after the 500 * 2^attempt delay or, on *)
(* the last attempt, the fetch throws the no-data error; a quote in which  *)
(* at most one of the two is zero makes the fetch return a Success built   *)
(* from it on that attempt.                                                *)
(***************************************************************************)
C22_NoDataIffBothZero ==
    \A i \in Idx :
        ParsedQuote(i) =>
            /\ (body[i].c = 0 /\ body[i].t = 0) <=> fres[i].tag # "return"
            /\ (body[i].c = 0 /\ body[i].t = 0) =>
                  /\ fpc[i] \in {"backoff", "inflight", "thrown"}
                  /\ fpc[i] = "backoff" =>
                        delays[i][Len(delays[i])] =
                            (IF attempt[i] = 0 THEN 500 ELSE 1000)
                  /\ fpc[i] = "thrown" =>
                        /\ fres[i].error.message =
                              "No data available for " \o registry[i].symbol
                        /\ HasError(entries[i].value)
            /\ ~(body[i].c = 0 /\ body[i].t = 0) =>
                  /\ fpc[i] = "returned"
                  /\ ~HasError(fres[i].value)
                  /\ ValueOf(fres[i].value) = body[i].c
                  /\ fres[i].value.previousClose = body[i].pc
                  /\ calls[i] = Len(got429[i])
                  /\ Len(delays[i]) = Len(got429[i]) - 1

\* one symbol returned a quote whose value alone is zero, another returned a
\* quote whose capture time alone is zero, on its second attempt
C22_Witness ==
    \E i, j \in Idx :
        /\ ParsedQuote(i)
        /\ body[i] = [c |-> 0, t |-> 1, pc |-> 100]
        /\ fres[i].tag = "return"
        /\ ParsedQuote(j)
        /\ body[j].c # 0 /\ body[j].t = 0
        /\ fres[j].tag = "return"
        /\ delays[j] = <<500>>


\* the fetch of symbol i has seen an outcome of a request or waited a delay
HasProgressed(i) ==
    \/ Len(got429[i]) > 0
    \/ delays[i] # <<>>
    \/ fres[i] # NoResult

(***************************************************************************)
(* C23: in a GET cycle the first outbound request of every registry symbol *)
(* is issued before any fetch has an outcome: as soon as one symbol has a  *)
(* request issued, an answer, a delay or a result, every symbol has issued *)
(* its first request, and the handler awaits only then.                    *)
(***************************************************************************)
C23_AllFirstRequestsBeforeAnyOutcome ==
    /\ (hpc = "awaiting") => \A j \in Idx : calls[j] >= 1
    /\ \A i, j \in Idx : calls[i] >= 1 => calls[j] >= 1
    /\ \A i, j \in Idx : HasProgressed(i) => calls[j] >= 1
    /\ \A j \in Idx : (calls[j] = 1 /\ Len(got429[j]) = 0) => fpc[j] = "inflight"

\* one symbol is in its second backoff delay while the first request of the
\* other is still unanswered
C23_Witness ==
    \E i, j \in Idx :
        /\ fpc[i] = "backoff"
        /\ Len(delays[i]) = 2
        /\ fpc[j] = "inflight"
        /\ calls[j] = 1
        /\ Len(got429[j]) = 0


(***************************************************************************)
(* C24: in the data of the response, the entry of a symbol whose fetch     *)
(* threw carries that symbol's identifier, the registry metadata of that   *)
(* symbol, a null value and the message of the error its own fetch threw,  *)
(* and nothing else; the entry of a symbol whose fetch returned is the     *)
(* returned object, unchanged.                                             *)
(***************************************************************************)
C24_FailureEntryOfOwnFetch ==
    (DataSent /\ FannedOut) =>
        \A i \in Idx :
            LET e == response.data[i]
                info == registry[i]
            IN /\ fres[i].tag = "return" => e = fres[i].value
               /\ fres[i].tag = "throw" =>
                    /\ e.error = fres[i].error.message
                    /\ e.error # ""
                    /\ pipeline = "economic" =>
                         /\ DOMAIN e = {"symbol", "name", "type", "value", "error"}
                         /\ e.symbol = info.symbol
                         /\ e.name = info.name
                         /\ e.type = info.type
                         /\ e.value = "null"
                    /\ pipeline = "stocks" =>
                         /\ DOMAIN e = {"ticker", "companyName", "sector", "price", "error"}
                         /\ e.ticker = info.symbol
                         /\ e.companyName = info.name
                         /\ e.sector = info.type
                         /\ e.price = "null"
                    /\ pipeline = "legacy" =>
                         /\ DOMAIN e = {"ticker", "companyName", "price", "error"}
                         /\ e.ticker = info.symbol
                         /\ e.companyName = info.name
                         /\ e.price = "null"

\* the second symbol failed with its own no-data error next to a Success of
\* the first symbol
C24_Witness ==
    /\ DataSent
    /\ pipeline = "stocks"
    /\ fres[1].tag = "return"
    /\ response.data[1] = fres[1].value
    /\ fres[2].tag = "throw"
    /\ response.data[2].error = "No data available for MSFT"
    /\ response.data[2].companyName = "Microsoft Corporation"


\* a step the cycle takes by itself: a continuation of the handler or a timer
TimerOrContinuation ==
    \/ HandleRequest
    \/ Respond
    \/ \E i \in Idx : CallTimesOut(i)
    \/ \E i \in Idx : BackoffElapsed(i)

(***************************************************************************)
(* C26: a request cycle sends at most one response, and its status is one  *)
(* of 200, 405, 500, 503; once the response is sent the cycle takes no     *)
(* further step (no retry, no second response); and a cycle of a handler   *)
(* whose calls have a timeout never stops without a response: as long as   *)
(* none is sent, a continuation or a timer of the cycle is still to run.   *)
(***************************************************************************)
C26_ExactlyOneTerminalResponse ==
    /\ sent \in {0, 1}
    /\ sent = 1 <=> hpc = "done"
    /\ sent = 1 <=> response # NoResponse
    /\ sent = 1 => response.status \in {200, 405, 500, 503}
    /\ sent = 1 => ~ENABLED FaultNext
    /\ (sent = 0 /\ HasTimeout(pipeline)) => ENABLED TimerOrContinuation

\* the generic 500 was sent and nothing can follow it
C26_Witness ==
    /\ sent = 1
    /\ response.status = 500
    /\ response.error = "Internal server error"
    /\ FannedOut
    /\ ~ENABLED FaultNext


\* everything the fetch of symbol i holds
FetchState(i) ==
    <<fpc[i], attempt[i], calls[i], delays[i], got429[i], body[i], fres[i], entries[i]>>

(***************************************************************************)
(* C27: each fetch has its own attempt counter, which starts at 0 and      *)
(* counts only the failed attempts of its own symbol; a step in which one  *)
(* symbol gets an answer, times out, backs off or retries leaves the       *)
(* attempt counter, the requests, the delays and the result of every other *)
(* symbol as they were; and a result, once there, never changes.           *)
(***************************************************************************)
C27_FetchesIndependent ==
    /\ [](\A i \in Idx :
            /\ fpc[i] = "idle" => attempt[i] = 0
            /\ fpc[i] \in {"inflight", "returned", "thrown"} /\ fres[i].tag # "undefined"
                  => attempt[i] = calls[i] - 1
            /\ attempt[i] <= Len(got429[i]))
    /\ [][/\ hpc = "awaiting" =>
               \A i, j \in Idx :
                   (FetchState(i)' # FetchState(i) /\ FetchState(j)' # FetchState(j))
                       => i = j
          /\ \A i \in Idx :
               fres[i] # NoResult => fres'[i] = fres[i] /\ entries'[i] = entries[i]
         ]_vars

\* one symbol used up its three attempts on rate limits, the other returned
\* on attempt 0
C27_Witness ==
    \E i, j \in Idx :
        /\ fres[i].tag = "throw"
        /\ got429[i] = <<TRUE, TRUE, TRUE>>
        /\ fres[j].tag = "return"
        /\ attempt[j] = 0
        /\ calls[j] = 1
        /\ delays[j] = <<>>


(***************************************************************************)
(* C28: for every value of retries >= 0 and every sequence of answers, a   *)
(* fetch ends by returning a Success or by throwing an error: it never     *)
(* ends without a result by leaving the retry loop.  A delay is waited     *)
(* only when an attempt is left, and a rate-limit status on the last       *)
(* attempt makes the fetch throw the error of that status.                 *)
(***************************************************************************)
C28_FetchReturnsOrThrows ==
    \A i \in Idx :
        /\ fres[i].tag \in {"none", "return", "throw"}
        /\ attempt[i] <= maxRetries
        /\ fpc[i] = "backoff" => attempt[i] < maxRetries
        /\ fpc[i] = "returned" =>
              /\ fres[i].tag = "return"
              /\ ~HasError(fres[i].value)
              /\ entries[i] = [state |-> "fulfilled", value |-> fres[i].value]
        /\ fpc[i] = "thrown" =>
              /\ fres[i].tag = "throw"
              /\ fres[i].error.attempt = maxRetries
              /\ calls[i] = maxRetries + 1
              /\ Len(delays[i]) = maxRetries
              /\ HasError(entries[i].value)
        /\ (Len(got429[i]) = maxRetries + 1 /\ got429[i][maxRetries + 1]) =>
              /\ fpc[i] = "thrown"
              /\ fres[i].error.message =
                    "API request failed for " \o registry[i].symbol \o ": 429"

\* a fetch called with retries = 0 threw on a rate-limit status, and so did
\* a fetch called with retries = 3 after three other failures
C28_Witness ==
    /\ fpc[1] = "thrown"
    /\ got429[1][Len(got429[1])]
    /\ \/ maxRetries = 0 /\ calls[1] = 1 /\ delays[1] = <<>>
       \/ maxRetries = 3 /\ calls[1] = 4 /\ delays[1] = <<500, 1000, 2000>>


(***************************************************************************)
(* C25: a GET cycle completes within the 10 seconds maximum of the         *)
(* endpoint: when the response is sent, no fetch of the cycle has spent    *)
(* more than 10000 ms in its per-call waits (5000 ms for a call that timed *)
(* out, nothing counted for a call that was answered) and its delays.      *)
(***************************************************************************)
C25_CycleWithinMaxDuration ==
    (hpc = "done") => \A i \in Idx : elapsed[i] <= MAX_DURATION_MS

====
